---- MODULE Spec2Model ----
(***************************************************************************)
(* Model of tb_control/tb_openLoop.py: the open-loop velocity profile node *)
(* of the TurtleBot3.  The node reads a scenario and a distance, plans the *)
(* time of travel, and a self-rescheduling timer callback publishes a      *)
(* velocity command on /cmd_vel every 0.01 s until the time has elapsed.   *)
(*                                                                         *)
(* Reals (times in seconds, velocities in m/s, distances in m) are exact   *)
(* rationals [n |-> numerator, d |-> denominator > 0] in lowest terms.     *)
(* The wall clock counts periods of the 0.01 s timer.                      *)
(***************************************************************************)
EXTENDS Integers, Sequences, FiniteSets

VARIABLES
    scenario_in,     \* text typed at "Select the scenario to run" (an integer)
    distance_in,     \* text typed at "Enter distance to travel in m"
    phase,           \* "new" | "spinning" (rclpy.spin) | "error" (ValueError caught in main)
    scenario,        \* self.scenario
    curr_speed,      \* self.curr_speed
    time_of_travel,  \* self.time_of_travel
    started_at,      \* self.started_at
    clock,           \* time.time(), in timer periods
    pending,         \* due times of the started Thread/Timer objects that have not run yet
    inflight,        \* msgs of scenario-1 callbacks between Timer.start() (l.94) and publish (l.95)
    cmd_vel,         \* linear.x of every message published on /cmd_vel, in order
    last_call,       \* the latest timer_callback invocation: time_now, msg.linear.x, Timer started
    prev_call        \* the invocation before it

vars == << scenario_in, distance_in, phase, scenario, curr_speed, time_of_travel,
           started_at, clock, pending, inflight, cmd_vel, last_call, prev_call >>

----------------------------------------------------------------------------
(* Bounds of the model *)

MaxScenario == 3     \* scenario selections 0..MaxScenario
MaxDistK == 5        \* distances -1..MaxDistK times DistUnit
MaxStartIdx == 1     \* the node starts 0.70 s + 0..MaxStartIdx timer periods into a second
MaxJitter == 1       \* a timer fires at most this many periods late
MaxInFlight == 2     \* scenario-1 callbacks stalled before their publish
MaxRecalls == 2      \* further invocations of timer_callback after the run has ended

----------------------------------------------------------------------------
(* Exact rational arithmetic standing for Python float arithmetic *)

Abs(x) == IF x < 0 THEN -x ELSE x

\* arguments of a function are evaluated once, before the application
GCDf[a \in Nat, b \in Nat] == IF b = 0 THEN a ELSE GCDf[b, a % b]

GCD(a, b) == GCDf[a, b]

RatF[n \in Int, d \in Int] ==
    LET s == IF d < 0 THEN -1 ELSE 1
        g == GCD(Abs(n), Abs(d))
    IN  [n |-> (s * n) \div g, d |-> (s * d) \div g]

Rat(n, d) == RatF[n, d]

RAdd(a, b) == Rat(a.n * b.d + b.n * a.d, a.d * b.d)
RSub(a, b) == Rat(a.n * b.d - b.n * a.d, a.d * b.d)
RMul(a, b) == Rat(a.n * b.n, a.d * b.d)
RDiv(a, b) == Rat(a.n * b.d, a.d * b.n)
RLt(a, b) == a.n * b.d < b.n * a.d
RLe(a, b) == a.n * b.d <= b.n * a.d
RGe(a, b) == RLe(b, a)

Zero == Rat(0, 1)
NoValue == [n |-> 0, d |-> 0]       \* an attribute not assigned yet
NonNumeric == [n |-> 1, d |-> 0]    \* an input float() cannot parse

----------------------------------------------------------------------------
(* Program constants *)

ConstSpeed == Rat(1, 10)            \* self.curr_speed = 0.1
AvgSpeed == Rat(165, 1000)          \* float(distance) / 0.165
MaxSpeed == Rat(22, 100)            \* next_speed = self.curr_speed = 0.22
SpeedStep == Rat(88, 10000)         \* 0.0088 / self.time_of_travel
TimerInterval == Rat(1, 100)        \* threading.Timer(0.01, ...)

(* Inputs *)

DistUnit == Rat(429, 100000)
Distances == { RMul(Rat(k, 1), DistUnit) : k \in -1..MaxDistK } \cup {NonNumeric}
Scenarios == 0..MaxScenario
StartClocks == { 70 + i : i \in 0..MaxStartIdx }

NoCall == [valid |-> FALSE, now |-> 0, x |-> Zero, timer |-> FALSE]
Call(now, x, timer) == [valid |-> TRUE, now |-> now, x |-> x, timer |-> timer]

----------------------------------------------------------------------------
(* Pure helpers of __init__ and timer_callback *)

\* time.time() when the clock shows c timer periods, in seconds
TimeOf(c) == RMul(Rat(c, 1), TimerInterval)

\* variant: the time is rounded up to whole seconds instead of truncated
IntTimeCeil(c) == Rat((TimeOf(c).n + TimeOf(c).d - 1) \div TimeOf(c).d, 1)

\* int(time.time()): truncation to whole seconds (the clock is never negative)
IntTime(c) == Rat(TimeOf(c).n \div TimeOf(c).d, 1)

\* variant: only selections below 1 are rejected
InvalidOptionLow(s) == s < 1

\* variant: only negative selections are rejected
InvalidOptionNeg(s) == s < 0

\* the final else of __init__, reached when neither the if nor the elif matched
InvalidOption(s) == s # 1 /\ s # 2

\* variant: scenario 2 divides by the maximum instead of the average velocity
PlanTimeMax(s, dist) ==
    IF s = 1 THEN RDiv(dist, ConstSpeed) ELSE RDiv(dist, MaxSpeed)

\* self.time_of_travel as computed in the branch of scenario s
PlanTime(s, dist) ==
    IF s = 1 THEN RDiv(dist, ConstSpeed) ELSE RDiv(dist, AvgSpeed)

\* time_now >= (self.started_at + self.time_of_travel), in scenario 1
ReachedGoal1(time_now) == RGe(time_now, RAdd(started_at, time_of_travel))

\* variant: the goal test of scenario 2 is strict
ReachedGoal2Strict(time_now) == RLt(RAdd(started_at, time_of_travel), time_now)

\* variant: the goal test of scenario 2 is an equality
ReachedGoal2Exact(time_now) == time_now = RAdd(started_at, time_of_travel)

\* time_now >= (self.started_at + self.time_of_travel), in scenario 2
ReachedGoal2(time_now) == RGe(time_now, RAdd(started_at, time_of_travel))

\* next_speed in the first quarter
AccelSpeed(speed) == RAdd(speed, RDiv(SpeedStep, time_of_travel))

\* variant: the central half holds whatever speed the first quarter reached
CruiseHold(speed) == speed

\* next_speed = self.curr_speed = 0.22 in the central half
CruiseSpeed(speed) == MaxSpeed

\* variant: the last quarter steps the speed up, as the first quarter does
DecelSpeedUp(speed) == RAdd(speed, RDiv(SpeedStep, time_of_travel))

\* next_speed in the last quarter
DecelSpeed(speed) == RSub(speed, RDiv(SpeedStep, time_of_travel))

\* the if/elif/elif chain of scenario 2; next_speed stays 0.0 if no branch is taken
NextSpeed(time_now) ==
    IF RLt(time_now, RAdd(started_at, RDiv(time_of_travel, Rat(4, 1))))
    THEN AccelSpeed(curr_speed)
    ELSE IF RLt(time_now, RAdd(started_at, RDiv(RMul(time_of_travel, Rat(3, 1)), Rat(4, 1))))
    THEN CruiseSpeed(curr_speed)
    ELSE IF RLt(time_now, RAdd(started_at, time_of_travel))
    THEN DecelSpeed(curr_speed)
    ELSE Zero

----------------------------------------------------------------------------
Init ==
    /\ scenario_in \in Scenarios
    /\ distance_in \in Distances
    /\ clock \in StartClocks
    /\ phase = "new"
    /\ scenario = -1
    /\ curr_speed = NoValue
    /\ time_of_travel = NoValue
    /\ started_at = NoValue
    /\ pending = << >>
    /\ inflight = << >>
    /\ cmd_vel = << >>
    /\ last_call = NoCall
    /\ prev_call = NoCall

\* variant: the start publishes the speed just stored instead of zero
InitMsgSpeed(speed) == speed

\* msg = Twist(); msg.linear.x = 0.0 (l.37-38, l.69-70)
InitMsg(speed) == Zero

\* variant: the start time is recorded, the callback thread is never started
StartRunNoThread ==
    /\ started_at' = TimeOf(clock)
    /\ pending' = pending
    /\ phase' = "spinning"

\* l.76-77: record the start time and start the first callback thread
StartRun ==
    /\ started_at' = TimeOf(clock)
    /\ pending' = Append(pending, clock)
    /\ phase' = "spinning"

\* raise ValueError, caught by main(): rclpy.spin is never entered
Raise ==
    /\ phase' = "error"
    /\ UNCHANGED << started_at, pending >>

\* main() constructing tb_openloop_node: __init__ (l.10-77) and main's except
NodeInit ==
    /\ phase = "new"
    /\ scenario' = scenario_in
    /\ UNCHANGED << scenario_in, distance_in, clock, inflight, last_call, prev_call >>
    /\ IF scenario_in = 1 \/ scenario_in = 2
       THEN /\ curr_speed' = IF scenario_in = 1 THEN ConstSpeed ELSE Zero
            /\ IF distance_in = NonNumeric
               THEN \* float(distance) raises ValueError
                    /\ Raise
                    /\ UNCHANGED << time_of_travel, cmd_vel >>
               ELSE /\ time_of_travel' = PlanTime(scenario_in, distance_in)
                    /\ cmd_vel' = Append(cmd_vel, InitMsg(curr_speed'))
                    /\ StartRun
       ELSE /\ UNCHANGED << curr_speed, time_of_travel, cmd_vel >>
            /\ IF InvalidOption(scenario_in) THEN Raise ELSE StartRun

\* variant: the goal branch of scenario 1 also starts a Timer
Callback1GoalTimer(rest) ==
    LET time_now == IntTime(clock) IN
    IF ReachedGoal1(time_now)
    THEN /\ curr_speed' = Zero
         /\ cmd_vel' = Append(cmd_vel, Zero)
         /\ pending' = Append(rest, clock + 1)
         /\ inflight' = inflight
         /\ last_call' = Call(clock, Zero, FALSE)
    ELSE /\ curr_speed' = curr_speed
         /\ cmd_vel' = cmd_vel
         /\ pending' = Append(rest, clock + 1)
         /\ inflight' = Append(inflight, curr_speed)
         /\ last_call' = Call(clock, curr_speed, TRUE)

\* timer_callback, scenario 1, up to and including Timer.start() (l.80-94)
Callback1(rest) ==
    LET time_now == IntTime(clock) IN
    IF ReachedGoal1(time_now)
    THEN /\ curr_speed' = Zero
         /\ cmd_vel' = Append(cmd_vel, Zero)
         /\ pending' = rest
         /\ inflight' = inflight
         /\ last_call' = Call(clock, Zero, FALSE)
    ELSE /\ curr_speed' = curr_speed
         /\ cmd_vel' = cmd_vel
         /\ pending' = Append(rest, clock + 1)
         /\ inflight' = Append(inflight, curr_speed)
         /\ last_call' = Call(clock, curr_speed, TRUE)

\* variant: scenario 2 starts a Timer before and after its publish
Callback2TwoTimers(rest) ==
    LET time_now == TimeOf(clock) IN
    IF ReachedGoal2(time_now)
    THEN /\ curr_speed' = curr_speed
         /\ cmd_vel' = Append(cmd_vel, Zero)
         /\ pending' = rest
         /\ last_call' = Call(clock, Zero, FALSE)
         /\ inflight' = inflight
    ELSE LET next_speed == NextSpeed(time_now) IN
         /\ curr_speed' = next_speed
         /\ cmd_vel' = Append(cmd_vel, next_speed)
         /\ pending' = Append(Append(rest, clock + 1), clock + 1)
         /\ last_call' = Call(clock, next_speed, TRUE)
         /\ inflight' = inflight

\* timer_callback, scenario 2 (l.97-138); Twist() has linear.x = 0.0 and
\* "msg.linear.x - next_speed" assigns nothing
Callback2(rest) ==
    LET time_now == TimeOf(clock) IN
    IF ReachedGoal2(time_now)
    THEN /\ curr_speed' = curr_speed
         /\ cmd_vel' = Append(cmd_vel, Zero)
         /\ pending' = rest
         /\ last_call' = Call(clock, Zero, FALSE)
         /\ inflight' = inflight
    ELSE LET next_speed == NextSpeed(time_now) IN
         /\ curr_speed' = next_speed
         /\ cmd_vel' = Append(cmd_vel, next_speed)
         /\ pending' = Append(rest, clock + 1)
         /\ last_call' = Call(clock, next_speed, TRUE)
         /\ inflight' = inflight

Without(seq, i) == SubSeq(seq, 1, i - 1) \o SubSeq(seq, i + 1, Len(seq))

\* a started Thread/Timer whose delay has passed runs timer_callback
TimerFire ==
    /\ phase = "spinning"
    /\ \E i \in DOMAIN pending :
        /\ pending[i] <= clock
        /\ IF scenario = 1
           THEN /\ Len(inflight) < MaxInFlight
                /\ Callback1(Without(pending, i))
                /\ prev_call' = last_call
           ELSE IF scenario = 2
           THEN /\ Callback2(Without(pending, i))
                /\ prev_call' = last_call
           ELSE \* raise ValueError in the timer thread
                /\ pending' = Without(pending, i)
                /\ UNCHANGED << curr_speed, cmd_vel, inflight, last_call, prev_call >>
    /\ UNCHANGED << scenario_in, distance_in, phase, scenario, time_of_travel,
                    started_at, clock >>

\* self.cmd_vel_pub.publish(msg) of a scenario-1 callback (l.95), after Timer.start()
Publish95 ==
    /\ \E i \in DOMAIN inflight :
        /\ cmd_vel' = Append(cmd_vel, inflight[i])
        /\ inflight' = Without(inflight, i)
    /\ UNCHANGED << scenario_in, distance_in, phase, scenario, curr_speed,
                    time_of_travel, started_at, clock, pending, last_call, prev_call >>

\* the wall clock advances; a timer is at most MaxJitter periods late
Advance ==
    /\ pending # << >>
    /\ \A i \in DOMAIN pending : clock < pending[i] + MaxJitter
    /\ clock' = clock + 1
    /\ UNCHANGED << scenario_in, distance_in, phase, scenario, curr_speed,
                    time_of_travel, started_at, pending, inflight, cmd_vel,
                    last_call, prev_call >>

Next == NodeInit \/ TimerFire \/ Publish95 \/ Advance

Spec == Init /\ [][Next]_vars

----------------------------------------------------------------------------
(* Scheduling assumption: the clock advances, every started timer fires and
   every stalled publish completes *)

FairSpec ==
    /\ Spec
    /\ WF_vars(NodeInit) /\ WF_vars(TimerFire) /\ WF_vars(Publish95) /\ WF_vars(Advance)

----------------------------------------------------------------------------
(* timer_callback invoked again after the run has ended.  The node does not do
   this itself: the goal branch starts no Timer. *)

\* the latest invocation took the goal branch: it returned without Timer.start()
Done == last_call.valid /\ ~last_call.timer

RECURSIVE TrailingZeros(_)
TrailingZeros(seq) ==
    IF seq = << >> \/ seq[Len(seq)] # Zero THEN 0
    ELSE 1 + TrailingZeros(SubSeq(seq, 1, Len(seq) - 1))

\* the clock moves on after the run has ended
AdvanceIdle ==
    /\ phase = "spinning" /\ Done /\ pending = << >>
    /\ TrailingZeros(cmd_vel) <= MaxRecalls
    /\ clock <= last_call.now
    /\ clock' = clock + 1
    /\ UNCHANGED << scenario_in, distance_in, phase, scenario, curr_speed,
                    time_of_travel, started_at, pending, inflight, cmd_vel,
                    last_call, prev_call >>

\* one more invocation of timer_callback (l.79-141) after the goal branch has run
Recall ==
    /\ phase = "spinning" /\ Done /\ pending = << >>
    /\ TrailingZeros(cmd_vel) <= MaxRecalls
    /\ IF scenario = 1 THEN Callback1(pending) ELSE Callback2(pending)
    /\ prev_call' = last_call
    /\ UNCHANGED << scenario_in, distance_in, phase, scenario, time_of_travel,
                    started_at, clock >>

NextRecall == Next \/ AdvanceIdle \/ Recall

SpecRecall == Init /\ [][NextRecall]_vars

----------------------------------------------------------------------------
(* An external stop request: Ctrl-C while main() is in rclpy.spin.  main catches
   ValueError only, so the KeyboardInterrupt leaves main; the node has no stop
   handler.  The started threading.Timer is not cancelled and its thread is not
   a daemon, so timer_callback keeps running; whether a publish after the stop
   is still delivered or raises is left open. *)

StopRequest ==
    /\ phase = "spinning"
    /\ phase' = "stopped"
    /\ UNCHANGED << scenario_in, distance_in, scenario, curr_speed, time_of_travel,
                    started_at, clock, pending, inflight, cmd_vel, last_call,
                    prev_call >>

\* timer_callback of scenario 1 when the publish of its goal branch (l.88)
\* raises: l.87 has stored the speed already.  The other branch is Callback1's:
\* its publish (l.95) comes after Timer.start()
Callback1Raise(rest) ==
    LET time_now == IntTime(clock) IN
    IF ReachedGoal1(time_now)
    THEN /\ curr_speed' = Zero
         /\ cmd_vel' = cmd_vel
         /\ pending' = rest
         /\ inflight' = inflight
         /\ last_call' = Call(clock, Zero, FALSE)
    ELSE /\ curr_speed' = curr_speed
         /\ cmd_vel' = cmd_vel
         /\ pending' = Append(rest, clock + 1)
         /\ inflight' = Append(inflight, curr_speed)
         /\ last_call' = Call(clock, curr_speed, TRUE)

\* timer_callback of scenario 2 when its publish (l.121, l.137) raises: l.136
\* has stored the speed already, Timer.start() (l.138) is never reached
Callback2Raise(rest) ==
    LET time_now == TimeOf(clock) IN
    /\ pending' = rest
    /\ UNCHANGED << cmd_vel, inflight >>
    /\ IF ReachedGoal2(time_now)
       THEN /\ curr_speed' = curr_speed
            /\ last_call' = Call(clock, Zero, FALSE)
       ELSE /\ curr_speed' = NextSpeed(time_now)
            /\ last_call' = Call(clock, NextSpeed(time_now), FALSE)

\* a started Timer fires after the stop request
TimerFireStopped ==
    /\ phase = "stopped"
    /\ scenario \in {1, 2}
    /\ \E i \in DOMAIN pending :
        /\ pending[i] <= clock
        /\ \E delivered \in BOOLEAN :
            IF scenario = 1
            THEN /\ Len(inflight) < MaxInFlight
                 /\ IF delivered
                    THEN Callback1(Without(pending, i))
                    ELSE Callback1Raise(Without(pending, i))
            ELSE IF delivered
                 THEN Callback2(Without(pending, i))
                 ELSE Callback2Raise(Without(pending, i))
    /\ prev_call' = last_call
    /\ UNCHANGED << scenario_in, distance_in, phase, scenario, time_of_travel,
                    started_at, clock >>

\* the l.95 publish of a stalled scenario-1 callback raises after the stop
Publish95Raises ==
    /\ phase = "stopped"
    /\ \E i \in DOMAIN inflight : inflight' = Without(inflight, i)
    /\ UNCHANGED << scenario_in, distance_in, phase, scenario, curr_speed,
                    time_of_travel, started_at, clock, pending, cmd_vel,
                    last_call, prev_call >>

NextStop == Next \/ StopRequest \/ TimerFireStopped \/ Publish95Raises

SpecStop == Init /\ [][NextStop]_vars

----------------------------------------------------------------------------
(* Vocabulary of the properties *)

Positive(dist) == dist # NonNumeric /\ RLt(Zero, dist)

\* now - startTime of a callback invocation
Elapsed(call) == RSub(TimeOf(call.now), started_at)

Quarter == RDiv(time_of_travel, Rat(4, 1))
ThreeQuarters == RDiv(RMul(time_of_travel, Rat(3, 1)), Rat(4, 1))

InAccel(call) == call.valid /\ RLt(Elapsed(call), Quarter)
InCruise(call) ==
    call.valid /\ RLe(Quarter, Elapsed(call)) /\ RLt(Elapsed(call), ThreeQuarters)
InDecel(call) ==
    call.valid /\ RLe(ThreeQuarters, Elapsed(call)) /\ RLt(Elapsed(call), time_of_travel)
AtOrAfterEnd(call) == call.valid /\ RGe(Elapsed(call), time_of_travel)

Last(seq) == seq[Len(seq)]

\* C1: Constant profile, distance > 0: every callback invocation whose elapsed
\* time is >= totalTime publishes velocity 0 and ends the run (starts no timer);
\* none publishes 0.1.
C1_ConstantStopsAtTotalTime ==
    (scenario = 1 /\ Positive(distance_in) /\ AtOrAfterEnd(last_call))
        => (last_call.x = Zero /\ ~last_call.timer)

\* C2: a start with scenario 1 or 2 and a distance <= 0 fails with an input
\* error: no start time is recorded, no callback is scheduled or run.
C2_NonPositiveDistanceRejected ==
    (phase # "new" /\ scenario_in \in {1, 2}
        /\ distance_in # NonNumeric /\ RLe(distance_in, Zero))
        => (phase = "error" /\ started_at = NoValue /\ pending = << >>
            /\ ~last_call.valid)

\* C3: a start with an integer selection other than 1 or 2 raises before the
\* start time is recorded: nothing is published, no callback is scheduled or
\* run, and the node never spins.
C3_InvalidOptionRaises ==
    (phase # "new" /\ scenario_in \notin {1, 2})
        => (phase = "error" /\ started_at = NoValue /\ cmd_vel = << >>
            /\ pending = << >> /\ inflight = << >> /\ ~last_call.valid)

C3_Witness == phase = "error" /\ scenario = 3 /\ scenario_in = 3

\* C4: for every distance > 0 the planned time of travel times the effective
\* average velocity is the distance: 0.1 for scenario 1, 0.165 = 0.75 * 0.22
\* for scenario 2.
C4_TotalTimeIsDistanceOverAverage ==
    (phase = "spinning" /\ Positive(distance_in))
        => /\ scenario = 1 => RMul(time_of_travel, Rat(1, 10)) = distance_in
           /\ scenario = 2 =>
                /\ RMul(time_of_travel, Rat(165, 1000)) = distance_in
                /\ RMul(time_of_travel, RMul(Rat(3, 4), Rat(22, 100))) = distance_in

C4_Witness ==
    /\ phase = "spinning" /\ scenario = 2 /\ Positive(distance_in)
    /\ RLt(Zero, time_of_travel)

\* C5: Constant profile: every callback invocation that fires with elapsed <
\* totalTime takes 0.1 as its command, unramped, and starts the next timer; what
\* such invocations hand to the command sink is 0.1 and nothing else.
C5_ConstantRunsAtFixedSpeed ==
    scenario = 1 =>
        /\ (last_call.valid /\ RLt(Elapsed(last_call), time_of_travel))
              => (last_call.x = Rat(1, 10) /\ last_call.timer)
        /\ \A i \in DOMAIN inflight : inflight[i] = Rat(1, 10)
        /\ \A i \in DOMAIN cmd_vel : cmd_vel[i] \in {Zero, Rat(1, 10)}

C5_Witness ==
    /\ scenario = 1 /\ Positive(distance_in)
    /\ last_call.valid /\ RLt(Elapsed(last_call), time_of_travel)
    /\ last_call.now > prev_call.now /\ prev_call.valid
    /\ inflight = << >> /\ Len(cmd_vel) = 3 /\ Last(cmd_vel) = Rat(1, 10)

\* C6: Trapezoidal profile: every callback invocation whose elapsed time is >=
\* totalTime publishes exactly 0 and ends the run: it starts no timer.
C6_TrapezoidStopsAtTotalTime ==
    (scenario = 2 /\ AtOrAfterEnd(last_call))
        => (last_call.x = Zero /\ ~last_call.timer
            /\ Last(cmd_vel) = Zero /\ pending = << >>)

C6_Witness ==
    /\ scenario = 2 /\ Positive(distance_in) /\ AtOrAfterEnd(last_call)
    /\ InDecel(prev_call) /\ Len(cmd_vel) > 3

\* C7: Trapezoidal profile, accelerate phase, distance > 0: the velocity
\* published by a callback with elapsed < totalTime/4 never exceeds 0.22.
C7_AccelNeverExceedsMax ==
    (scenario = 2 /\ Positive(distance_in) /\ InAccel(last_call))
        => RLe(last_call.x, Rat(22, 100))

\* C8: Trapezoidal profile, decelerate phase: the velocity published by a
\* callback with 3*totalTime/4 <= elapsed < totalTime is floored at 0, and no
\* published command is ever negative.
C8_NeverNegative ==
    /\ (scenario = 2 /\ InDecel(last_call)) => RLe(Zero, last_call.x)
    /\ \A i \in DOMAIN cmd_vel : RLe(Zero, cmd_vel[i])

\* C9: Trapezoidal profile, cruise phase: every callback with totalTime/4 <=
\* elapsed < 3*totalTime/4 publishes exactly 0.22 and leaves the stored speed at
\* 0.22, whatever speed the accelerate phase had stored.
C9_CruiseHoldsMax ==
    (scenario = 2 /\ InCruise(last_call))
        => (last_call.x = Rat(22, 100) /\ Last(cmd_vel) = Rat(22, 100)
            /\ curr_speed = Rat(22, 100) /\ last_call.timer)

C9_Witness ==
    /\ scenario = 2 /\ Positive(distance_in) /\ InCruise(last_call)
    /\ InAccel(prev_call) /\ prev_call.x # Rat(22, 100)
    /\ curr_speed = Rat(22, 100)

\* C10: Trapezoidal profile: of two consecutive callbacks that both fall in
\* [0, totalTime/4) the later publishes the earlier's velocity plus
\* 0.0088/totalTime, so no less; of two that both fall in
\* [3*totalTime/4, totalTime) the later publishes the earlier's velocity minus
\* 0.0088/totalTime, so no more.
C10_MonotoneRamps ==
    scenario = 2 =>
        /\ (InAccel(prev_call) /\ InAccel(last_call))
              => /\ RLe(prev_call.x, last_call.x)
                 /\ last_call.x = RAdd(prev_call.x, RDiv(Rat(88, 10000), time_of_travel))
        /\ (InDecel(prev_call) /\ InDecel(last_call))
              => /\ RLe(last_call.x, prev_call.x)
                 /\ last_call.x = RSub(prev_call.x, RDiv(Rat(88, 10000), time_of_travel))

\* two accelerating callbacks opened the run and two decelerating ones are the latest
C10_Witness ==
    /\ scenario = 2 /\ Positive(distance_in)
    /\ InDecel(prev_call) /\ InDecel(last_call)
    /\ RLt(last_call.x, prev_call.x)
    /\ Len(cmd_vel) > 3 /\ RLt(cmd_vel[2], cmd_vel[3])
    /\ cmd_vel[3] = RAdd(cmd_vel[2], cmd_vel[2])

\* C11: once the goal branch has run, nothing but zero is published afterwards:
\* under every interleaving of the callback threads the last command delivered
\* to /cmd_vel is zero.
C11_LastCommandIsZero == Done => Last(cmd_vel) = Zero

\* C12: once an invocation has returned done, a further invocation of
\* timer_callback (at a later or equal time) again publishes 0, starts no
\* timer, leaves no timer pending and leaves the stored speed as it was.
C12_TerminalIdempotent ==
    [][ ( /\ Done
          /\ inflight' = inflight
          /\ << last_call, prev_call, cmd_vel, pending, curr_speed >>'
                # << last_call, prev_call, cmd_vel, pending, curr_speed >> )
        => ( /\ last_call'.valid /\ last_call'.x = Zero /\ ~last_call'.timer
             /\ cmd_vel' = Append(cmd_vel, Zero)
             /\ pending' = << >>
             /\ curr_speed' = curr_speed ) ]_vars

\* two invocations in a row took the goal branch, the stored speed is not zero
C12_Witness ==
    /\ Done /\ prev_call.valid /\ ~prev_call.timer
    /\ last_call.now > prev_call.now
    /\ scenario = 2 /\ Positive(distance_in) /\ curr_speed # Zero
    /\ TrailingZeros(cmd_vel) >= 2

\* C13: after every valid start (scenario 1 or 2, distance > 0), if the clock
\* advances and every started timer fires, a callback eventually takes the goal
\* branch: it publishes a zero command and leaves no timer pending.
C13_RunTerminates ==
    (scenario_in \in {1, 2} /\ Positive(distance_in))
        => <>(/\ phase = "spinning" /\ Done /\ pending = << >>
              /\ \E i \in 2..Len(cmd_vel) : cmd_vel[i] = Zero)

C13_Witness ==
    /\ phase = "spinning" /\ scenario \in {1, 2} /\ Positive(distance_in)
    /\ Done /\ pending = << >> /\ Last(cmd_vel) = Zero
    /\ prev_call.valid /\ prev_call.timer

\* C14: after a stop request that arrives during a run (a timer is still
\* pending), no further callback runs and exactly one final zero command is
\* published: the stop itself publishes it, and nothing is published after.
C14_StopCancelsRun ==
    [][ /\ (phase = "spinning" /\ phase' = "stopped" /\ pending # << >>)
            => cmd_vel' = Append(cmd_vel, Zero)
        /\ phase = "stopped"
            => (last_call' = last_call /\ prev_call' = prev_call
                /\ cmd_vel' = cmd_vel) ]_vars

\* C15: no callback re-entrancy: at most one timer_callback invocation is in
\* progress at any time; none starts while an earlier one has not yet finished
\* its publish.
C15_NoReentrancy == Len(inflight) <= 1

\* C16: at most one timer is started and not yet fired: the start schedules
\* one first callback and every invocation starts at most one Timer.
C16_AtMostOnePending == Len(pending) <= 1

C16_Witness ==
    /\ Len(pending) = 1 /\ last_call.valid /\ last_call.timer
    /\ prev_call.valid /\ prev_call.timer /\ pending[1] = last_call.now + 1

\* the goal test of timer_callback, on the time an invocation read
GoalSeen(call) ==
    /\ call.valid
    /\ IF scenario = 1
       THEN RGe(IntTime(call.now), RAdd(started_at, time_of_travel))
       ELSE RGe(TimeOf(call.now), RAdd(started_at, time_of_travel))

\* C17: the invocation that finds the time of travel elapsed starts no timer:
\* after it no timer is pending and no callback runs again in that run; every
\* other invocation starts exactly one Timer.
C17_SchedulingStopsAtGoal ==
    [][ /\ (scenario \in {1, 2} /\ last_call' # last_call)
            => IF GoalSeen(last_call')
               THEN ~last_call'.timer /\ pending' = << >>
               ELSE last_call'.timer /\ pending' = << last_call'.now + 1 >>
        /\ (scenario \in {1, 2} /\ GoalSeen(last_call))
            => (pending = << >> /\ pending' = << >> /\ last_call' = last_call) ]_vars

C17_Witness ==
    /\ scenario = 1 /\ Positive(distance_in) /\ GoalSeen(last_call)
    /\ pending = << >> /\ ~last_call.timer
    /\ prev_call.valid /\ prev_call.timer /\ ~GoalSeen(prev_call)
    /\ inflight = << >>

\* C18: on entering the terminal state the stored speed is set to 0, for both
\* profiles: after the goal branch has run, curr_speed = 0.
C18_GoalResetsSpeed ==
    (scenario \in {1, 2} /\ Done) => curr_speed = Zero

\* C19: the plan is read-only during the run: once the node is constructed no
\* step changes scenario, time_of_travel or started_at, and a node that spins
\* has scenario 1 or 2, so the unsupported-option branch of timer_callback is
\* never taken.
C19_PlanReadOnly ==
    [][ phase # "new"
        => ( /\ scenario' = scenario
             /\ time_of_travel' = time_of_travel
             /\ started_at' = started_at
             /\ phase = "spinning" => scenario \in {1, 2} ) ]_vars

C19_Witness ==
    /\ phase = "spinning" /\ scenario = 2 /\ InCruise(last_call) /\ InAccel(prev_call)
    /\ time_of_travel = RDiv(distance_in, Rat(165, 1000))
    /\ RLe(started_at, TimeOf(prev_call.now))

\* C20: every valid start publishes exactly one zero command before any
\* callback runs: the first command on /cmd_vel is 0, and until the first
\* callback has run it is the only one.
C20_StartPublishesZeroFirst ==
    (phase = "spinning" /\ scenario \in {1, 2})
        => /\ Len(cmd_vel) >= 1 /\ cmd_vel[1] = Zero
           /\ ~last_call.valid => (cmd_vel = << Zero >> /\ inflight = << >>)
           /\ started_at # NoValue

C20_Witness ==
    /\ phase = "spinning" /\ scenario = 1 /\ Positive(distance_in)
    /\ last_call.valid /\ Len(cmd_vel) = 2
    /\ cmd_vel[1] = Zero /\ cmd_vel[2] = Rat(1, 10)
====
